---------------------------- MODULE Spec2Model ----------------------------
(***************************************************************************)
(* Model of the reconciliation and transfer engine of google-drive-sync:   *)
(* SyncEngine (sync_engine.py) together with the parts of DriveManager,    *)
(* PhotosManager and ConflictResolver that decide what a run does.         *)
(*                                                                         *)
(* Two specifications share the variables:                                 *)
(*   SpecCompare  _compare_files / _are_dates_similar applied to bounded   *)
(*                scanned collections (a pure function of its inputs);     *)
(*   Spec         one run of start_sync on a worker, with stop_sync()      *)
(*                arriving from another thread at any moment, the Start    *)
(*                Sync and Stop Sync buttons of the application, and the   *)
(*                reset a further start_sync call makes on the engine.     *)
(***************************************************************************)
EXTENDS Integers, Sequences, FiniteSets, TLC

VARIABLES
    driveStore,          \* the Drive folder tree: sequence of file resources
    photosStore,         \* the Photos library: sequence of raw media items
    pc,                  \* position of the worker inside start_sync
    stop_requested,      \* SyncEngine.stop_requested
    stats,               \* SyncEngine.stats
    drive_media_files,   \* local of start_sync (line 85)
    photos_metadata,     \* local of start_sync (line 104)
    comparison_result,   \* local of start_sync (line 121)
    resolved,            \* local of _resolve_conflicts (line 300)
    ci,                  \* index of the conflict the for loop of line 302 is at
    li,                  \* index of the item the transfer loop is at
    completed_operations,\* local of _perform_sync_operations (line 380)
    scratch,             \* temporary files created and not yet unlinked
    tmpCount,            \* temporary files created so far (names them)
    attempted,           \* history: single-item transfers started in the run
    stopK,               \* history: completed_operations when stop_sync() set
                         \* the flag between two transfers (-1: it did not)
    scanFailed,          \* history: a listing call of the run failed
    cancelSeen,          \* history: the run took a cancellation exit, or the
                         \* adjudicator answered cancel
    refused,             \* history: a store refused a call of a transfer
    stopCalled,          \* history: stop_sync() has been called on the engine
                         \* since its worker thread was started
    earlier,             \* history: the stats an earlier start_sync call left
    start_button,        \* Application.start_button's state
    stop_button,         \* Application.stop_button's state
    sync_threads,        \* worker threads Application.start_sync has started
    selected_folder_id,  \* Application.selected_folder_id
    rejected,            \* history: Application.start_sync returned at line 261
    progress_reports,    \* history: the values passed to progress_callback
    stopAt,              \* history: where the worker was, and how many
                         \* transfers it had started, when stop_sync() last
                         \* turned the flag on
    started,             \* history: ids of the items whose transfer was begun
    lastTransfer,        \* history: the single-item transfer that ended
                         \* last: whether its staging download reported
                         \* success, whether the push was invoked
    driveTree,           \* what files().list serves, folder by folder and
                         \* page by page, to a get_folder_contents call
    recursive,           \* argument of get_folder_contents
    files,               \* local of get_folder_contents (line 64)
    page_token           \* local of get_folder_contents (line 65)

vars == <<driveStore, photosStore, pc, stop_requested, stats,
          drive_media_files, photos_metadata, comparison_result, resolved,
          ci, li, completed_operations, scratch, tmpCount, attempted, stopK,
          scanFailed, cancelSeen, refused, stopCalled, earlier,
          start_button, stop_button, sync_threads, selected_folder_id,
          rejected, progress_reports, stopAt, started, lastTransfer,
          driveTree, recursive, files, page_token>>

\* the variables of a get_folder_contents call followed page by page
listingVars == <<driveTree, recursive, files, page_token>>

(***************************************************************************)
(* Bounds of the model.                                                    *)
(***************************************************************************)
\* longest scanned collection per store in SpecCompare
MaxFiles == 2
\* most pages the listing of one folder's files has in SpecListing
MaxPages == 2
\* number of distinct file names in the stores of Spec
NumNames == 2
\* most worker threads the application starts
MaxThreads == 2

(***************************************************************************)
(* Python values.                                                          *)
(***************************************************************************)
\* None, where a string is expected
PyNone == "<None>"

\* str.lower() on the file names of the model
Lower(s) == CASE s = "A.JPG" -> "a.jpg"
              [] s = "B.JPG" -> "b.jpg"
              [] OTHER -> s

Abs(n) == IF n < 0 THEN -n ELSE n

\* A timestamp string, by what datetime.fromisoformat makes of it:
\*   missing  the key is absent (Drive) or the value is None (Photos)
\*   empty    ""
\*   bad      a string fromisoformat rejects (ValueError)
\*   aware    an ISO string with a UTC offset ("...Z"), t seconds
\*   naive    an ISO string without offset, t seconds
TsMissing == [k |-> "missing", t |-> 0]
TsEmpty == [k |-> "empty", t |-> 0]
TsBad == [k |-> "bad", t |-> 0]
Aware(t) == [k |-> "aware", t |-> t]
Naive(t) == [k |-> "naive", t |-> t]

\* default of _are_dates_similar's tolerance_hours
tolerance_hours == 24
\* seconds in an hour (the divisor of line 280)
SecondsPerHour == 3600

(***************************************************************************)
(* _are_dates_similar (sync_engine.py 257-287).                            *)
(* diff = abs(total_seconds) / 3600 <= tolerance_hours is a comparison of  *)
(* reals; on integer seconds it is abs(seconds) <= tolerance_hours * 3600. *)
(***************************************************************************)
\* `not s` for a timestamp string: None and "" are falsy
Falsy(ts) == ts.k \in {"missing", "empty"}

\* datetime.fromisoformat raises ValueError
RaisesValueError(ts) == ts.k = "bad"

\* mutant: the boundary is excluded (< for <=)
AreDatesSimilar_Strict(drive_file, photos_item) ==
    LET d == drive_file.createdTime
        p == photos_item.creation_time
    IN  IF Falsy(d) \/ Falsy(p) THEN FALSE
        ELSE IF RaisesValueError(d) \/ RaisesValueError(p) THEN FALSE
        ELSE IF d.k # p.k THEN FALSE
        ELSE Abs(d.t - p.t) < tolerance_hours * SecondsPerHour

\* mutant: a comparison that cannot be made counts as similar
AreDatesSimilar_Lenient(drive_file, photos_item) ==
    LET d == drive_file.createdTime
        p == photos_item.creation_time
    IN  IF Falsy(d) \/ Falsy(p) THEN TRUE
        ELSE IF RaisesValueError(d) \/ RaisesValueError(p) THEN TRUE
        ELSE IF d.k # p.k THEN FALSE
        ELSE Abs(d.t - p.t) <= tolerance_hours * SecondsPerHour

AreDatesSimilar(drive_file, photos_item) ==
    LET d == drive_file.createdTime      \* .get('createdTime', '')
        p == photos_item.creation_time   \* .get('creation_time', '')
    IN  IF Falsy(d) \/ Falsy(p) THEN FALSE                    \* line 273
        ELSE IF RaisesValueError(d) \/ RaisesValueError(p)
             THEN FALSE                                        \* line 285
        ELSE IF d.k # p.k THEN FALSE   \* aware - naive: TypeError, line 285
        ELSE Abs(d.t - p.t) <= tolerance_hours * SecondsPerHour

(***************************************************************************)
(* _compare_files (sync_engine.py 166-255).                                *)
(***************************************************************************)
\* int(drive_file.get('size', 0)) raises ValueError (line 194)
SizeRaises(drive_file) == drive_file.size = "abc"

\* photos_item.get('filename', '').lower() raises AttributeError (line 200):
\* the key is present with value None
FilenameRaises(photos_item) == photos_item.filename = PyNone

\* the indexing loops of lines 192-202 and the dict comprehensions of
\* lines 209-210 raise
CompareRaises(drive_files, photos_items) ==
    \/ \E i \in 1..Len(drive_files) : SizeRaises(drive_files[i])
    \/ \E i \in 1..Len(photos_items) : FilenameRaises(photos_items[i])

\* the keys of a dict built from a sequence of keys, in insertion order
RECURSIVE DictKeys(_)
DictKeys(ks) ==
    IF ks = <<>> THEN <<>>
    ELSE LET front == DictKeys(SubSeq(ks, 1, Len(ks) - 1))
             last == ks[Len(ks)]
         IN  IF \E i \in 1..Len(front) : front[i] = last
             THEN front ELSE Append(front, last)

DriveKeys(drive_files) ==
    [i \in 1..Len(drive_files) |-> Lower(drive_files[i].name)]

PhotosKeys(photos_items) ==
    [i \in 1..Len(photos_items) |-> Lower(photos_items[i].filename)]

\* {key(f): f for f in files}[k]: the last item under the key wins
DictGet(items, keys, k) ==
    items[CHOOSE i \in 1..Len(items) :
            /\ keys[i] = k
            /\ \A j \in (i + 1)..Len(items) : keys[j] # k]

\* first pass (lines 213-232): the pairs joined on the lower-cased name, in
\* the order of drive_names
JoinedPairs(drive_files, photos_items) ==
    LET dk == DriveKeys(drive_files)
        pk == PhotosKeys(photos_items)
        names == DictKeys(dk)
        common == SelectSeq(names,
                    LAMBDA n : \E i \in 1..Len(pk) : pk[i] = n)
    IN  [i \in 1..Len(common) |->
            [drive_file |-> DictGet(drive_files, dk, common[i]),
             photos_item |-> DictGet(photos_items, pk, common[i])]]

\* mutant: every Drive file whose name was joined counts as processed
ProcessedDriveFiles_ByName(drive_files, pairs) ==
    {drive_files[i].id : i \in
        {j \in 1..Len(drive_files) :
            \E q \in 1..Len(pairs) :
                Lower(pairs[q].drive_file.name) = Lower(drive_files[j].name)}}

\* mutant: the first pass records no Drive file as processed
ProcessedDriveFiles_Forgotten(drive_files, pairs) == {}

\* processed_drive_files (line 231)
ProcessedDriveFiles(drive_files, pairs) ==
    {pairs[i].drive_file.id : i \in 1..Len(pairs)}

\* mutant: the set survives the first call already filled, so the second
\* call of a run finds nothing left to pair off
ProcessedPhotosItems_FirstCallOnly(photos_items, pairs) ==
    IF pc = "compared" THEN {}
    ELSE {pairs[i].photos_item.id : i \in 1..Len(pairs)}

\* processed_photos_items (line 232)
ProcessedPhotosItems(photos_items, pairs) ==
    {pairs[i].photos_item.id : i \in 1..Len(pairs)}

EmptyResult ==
    [raised |-> FALSE, drive_only |-> <<>>, photos_only |-> <<>>,
     matches |-> <<>>, conflicts |-> <<>>]

CompareFiles(drive_files, photos_items) ==
    IF CompareRaises(drive_files, photos_items)
    THEN [EmptyResult EXCEPT !.raised = TRUE]
    ELSE
    LET pairs == JoinedPairs(drive_files, photos_items)
        similar(pr) == AreDatesSimilar(pr.drive_file, pr.photos_item)
        pd == ProcessedDriveFiles(drive_files, pairs)
        pp == ProcessedPhotosItems(photos_items, pairs)
    IN  [raised |-> FALSE,
         matches |-> SelectSeq(pairs, similar),
         conflicts |-> SelectSeq(pairs, LAMBDA pr : ~similar(pr)),
         drive_only |-> SelectSeq(drive_files, LAMBDA f : f.id \notin pd),
         photos_only |-> SelectSeq(photos_items, LAMBDA p : p.id \notin pp)]

(***************************************************************************)
(* Scanned collections.                                                    *)
(***************************************************************************)
\* a Drive file resource as files().list returns it (drive_manager.py 77)
DriveFile(id, name, size, createdTime, parents) ==
    [id |-> id, name |-> name, size |-> size, createdTime |-> createdTime,
     mimeType |-> "image/jpeg", parents |-> parents]

\* a raw media item as mediaItems().list returns it
MediaItem(id, filename, creationTime) ==
    [id |-> id, filename |-> filename, creationTime |-> creationTime]

\* PhotosManager.parse_media_metadata (photos_manager.py 371-405), the
\* fields the engine reads
ParseMediaMetadata(media_item) ==
    [id |-> media_item.id,
     filename |-> media_item.filename,
     creation_time |-> media_item.creationTime]

DriveId(i) == "d" \o ToString(i)
PhotosId(i) == "p" \o ToString(i)

\* instants that lie 0, exactly the tolerance, and one second more apart
Instants ==
    {0, tolerance_hours * SecondsPerHour, tolerance_hours * SecondsPerHour + 1}

CmpNames == {"a.jpg", "A.JPG", "b.jpg"}

\* collections with several items, same-named ones included
CoarseTs == {Aware(0), Aware(4 * tolerance_hours * SecondsPerHour)}
CoarseDrive == [name : CmpNames, createdTime : CoarseTs]
CoarsePhotos == [filename : CmpNames, creationTime : CoarseTs]

\* one item per store, with every kind of timestamp, size and name
FineTs == {TsMissing, TsEmpty, TsBad, Naive(0)} \cup {Aware(t) : t \in Instants}
FineDrive == [name : CmpNames, createdTime : FineTs, size : {"missing", "100", "abc"}]
FinePhotos == [filename : CmpNames \cup {PyNone}, creationTime : FineTs]

\* no single-item transfer has ended
NoTransfer == [staged |-> FALSE, pushed |-> FALSE]

InitLocals ==
    /\ stop_requested = FALSE
    /\ stats = [drive_to_photos_uploads |-> 0, photos_to_drive_downloads |-> 0,
                conflicts_resolved |-> 0, errors |-> 0]
    /\ comparison_result = EmptyResult
    /\ resolved = <<>>
    /\ ci = 0
    /\ li = 0
    /\ completed_operations = 0
    /\ scratch = 0
    /\ tmpCount = 0
    /\ attempted = 0
    /\ stopK = -1
    /\ scanFailed = FALSE
    /\ cancelSeen = FALSE
    /\ refused = FALSE
    /\ stopCalled = FALSE
    /\ earlier = [drive_to_photos_uploads |-> 0, photos_to_drive_downloads |-> 0,
                  conflicts_resolved |-> 0, errors |-> 0]
    /\ rejected = FALSE
    /\ progress_reports = <<>>
    /\ stopAt = [pc |-> "none", attempted |-> 0]
    /\ started = <<>>
    /\ lastTransfer = NoTransfer

\* no get_folder_contents call is followed page by page
NoListing ==
    /\ driveTree = <<>>
    /\ recursive = TRUE
    /\ files = <<>>
    /\ page_token = PyNone

InitCompareCoarse ==
    \E n \in 0..MaxFiles, m \in 0..MaxFiles :
      \E f \in [1..n -> CoarseDrive], g \in [1..m -> CoarsePhotos] :
        /\ drive_media_files =
             [i \in 1..n |-> DriveFile(DriveId(i), f[i].name, "100",
                                       f[i].createdTime, "root")]
        /\ photos_metadata =
             [i \in 1..m |-> ParseMediaMetadata(
                 MediaItem(PhotosId(i), g[i].filename, g[i].creationTime))]

InitCompareFine ==
    \E f \in FineDrive, g \in FinePhotos :
        /\ drive_media_files =
             <<DriveFile(DriveId(1), f.name, f.size, f.createdTime, "root")>>
        /\ photos_metadata =
             <<ParseMediaMetadata(
                 MediaItem(PhotosId(1), g.filename, g.creationTime))>>

InitCompare ==
    /\ pc = "compare"
    /\ selected_folder_id = "folder"
    /\ start_button = "disabled"      \* app.py 276
    /\ stop_button = "normal"         \* app.py 277
    /\ sync_threads = 1               \* app.py 291
    /\ driveStore = <<>>
    /\ photosStore = <<>>
    /\ InitLocals
    /\ NoListing
    /\ (InitCompareCoarse \/ InitCompareFine)

\* comparison_result = self._compare_files(...) (line 121)
CompareOnly ==
    /\ pc = "compare"
    /\ comparison_result' = CompareFiles(drive_media_files, photos_metadata)
    /\ pc' = "compared"
    /\ UNCHANGED <<driveStore, photosStore, stop_requested, stats,
                   drive_media_files, photos_metadata, resolved, ci, li,
                   completed_operations, scratch, tmpCount, attempted, stopK,
                   scanFailed, cancelSeen, refused>>
    /\ UNCHANGED <<stopCalled, earlier, start_button, stop_button,
                   sync_threads>>
    /\ UNCHANGED <<selected_folder_id, rejected, progress_reports, stopAt,
                   started>>
    /\ UNCHANGED listingVars
    /\ UNCHANGED lastTransfer

\* _compare_files called once more on the same two lists, nothing having been
\* transferred in between
CompareAgain ==
    /\ pc = "compared"
    /\ comparison_result' = CompareFiles(drive_media_files, photos_metadata)
    /\ pc' = "compared_again"
    /\ UNCHANGED <<driveStore, photosStore, stop_requested, stats,
                   drive_media_files, photos_metadata, resolved, ci, li,
                   completed_operations, scratch, tmpCount, attempted, stopK,
                   scanFailed, cancelSeen, refused>>
    /\ UNCHANGED <<stopCalled, earlier, start_button, stop_button,
                   sync_threads>>
    /\ UNCHANGED <<selected_folder_id, rejected, progress_reports, stopAt,
                   started>>
    /\ UNCHANGED listingVars
    /\ UNCHANGED lastTransfer

NextCompare == CompareOnly \/ CompareAgain

SpecCompare == InitCompare /\ [][NextCompare]_vars


(***************************************************************************)
(* The stores of a run (Spec).                                             *)
(***************************************************************************)
\* how a file name of the model is spread over the two stores
Statuses == {"absent", "drive", "photos", "similar", "conflicting"}

RunName(k) == "f" \o ToString(k) \o ".jpg"

\* name of the k-th temporary file (tempfile.NamedTemporaryFile, line 449)
TmpName(k) == "tmp" \o ToString(k)

Far == 4 * tolerance_hours * SecondsPerHour

Indices == [k \in 1..NumNames |-> k]

\* a file of the folder that is no image and no video, named like the first
\* media file of the model
NotesFile ==
    [DriveFile(DriveId(0), RunName(1), "100", Aware(0), "root")
        EXCEPT !.mimeType = "text/plain"]

InitStores ==
    \E st \in [1..NumNames -> Statuses] :
        /\ driveStore =
             LET on == SelectSeq(Indices,
                         LAMBDA k : st[k] \in {"drive", "similar", "conflicting"})
             IN  <<NotesFile>> \o
                 [i \in 1..Len(on) |->
                    IF on[i] % 2 = 1
                    THEN DriveFile(DriveId(on[i]), RunName(on[i]), "100",
                                   Aware(0), "root")
                    ELSE [DriveFile(DriveId(on[i]), RunName(on[i]), "100",
                                    Aware(0), "sub")
                             EXCEPT !.mimeType = "IMAGE/JPEG"]]
        /\ photosStore =
             LET on == SelectSeq(Indices,
                         LAMBDA k : st[k] \in {"photos", "similar", "conflicting"})
             IN  [i \in 1..Len(on) |->
                    MediaItem(PhotosId(on[i]), RunName(on[i]),
                              IF st[on[i]] = "conflicting"
                              THEN Aware(Far) ELSE Aware(0))]

\* Application.__init__ (app.py 25-46) and create_ui: no folder selected, no
\* engine, both buttons disabled. The engine's variables hold what
\* SyncEngine.__init__ (lines 40-51) will give them.
Init ==
    /\ pc = "idle"
    /\ selected_folder_id = PyNone     \* app.py 37
    /\ start_button = "disabled"       \* app.py 116
    /\ stop_button = "disabled"        \* app.py 120
    /\ sync_threads = 0
    /\ InitStores
    /\ drive_media_files = <<>>
    /\ photos_metadata = <<>>
    /\ InitLocals
    /\ NoListing

\* mutant: start_sync keeps the counters it finds
ZeroStats_Accumulate == stats

ZeroStats ==
    [drive_to_photos_uploads |-> 0, photos_to_drive_downloads |-> 0,
     conflicts_resolved |-> 0, errors |-> 0]

(***************************************************************************)
(* The store clients.                                                      *)
(***************************************************************************)
\* DriveManager.get_folder_contents(folder_id, recursive=True)
\* (drive_manager.py 52-101) on a folder with one subfolder. env:
\*   ok         every listing call answers
\*   http_root  a page of the folder's own listing raises HttpError: the
\*              except clause of line 99 returns []
\*   http_sub   the subfolder's listing (or list_folders) raises HttpError:
\*              the inner call returns [], the outer one the folder's files
GetFolderContents(store, env) ==
    LET own == SelectSeq(store, LAMBDA f : f.parents = "root")
        sub == SelectSeq(store, LAMBDA f : f.parents = "sub")
    IN  CASE env = "ok" -> own \o sub
          [] env = "http_sub" -> own
          [] OTHER -> <<>>

\* str.lower() on the MIME types of the model
LowerMime(m) == CASE m = "IMAGE/JPEG" -> "image/jpeg"
                  [] OTHER -> m

\* the part of a (lower-case) MIME type of the model up to its slash; the
\* type as it is when it is written otherwise
MainType(m) == CASE m = "image/jpeg" -> "image/"
                 [] m = "video/mp4" -> "video/"
                 [] m = "text/plain" -> "text/"
                 [] OTHER -> m

\* mutant: every file of the folder counts as a media file
IsMediaFile_All(file_info) == TRUE

\* DriveManager.is_media_file (drive_manager.py 251-261)
IsMediaFile(file_info) ==
    LET mime_type == LowerMime(file_info.mimeType)
    IN  MainType(mime_type) = "image/" \/ MainType(mime_type) = "video/"

\* PhotosManager.get_all_media_items (photos_manager.py 49-85): HttpError is
\* caught and [] returned
GetAllMediaItems(store, env) == IF env = "ok" THEN store ELSE <<>>

\* a Python str, where the callee expects a dict
PyStr(v) == [py |-> "str", v |-> v]

\* PhotosManager.download_media_item(media_item, local_path)
\* (photos_manager.py 133-181): media_item.get on a str raises
\* AttributeError inside the try, and the except clause returns False
DownloadMediaItem(media_item, env) ==
    IF media_item.py # "dict" THEN FALSE ELSE env = "ok"

\* the name PhotosManager.upload_media_item gives the new item (lines
\* 195-197): the basename of local_path unless a filename is passed
UploadedFilename(local_path, filename) ==
    IF filename = PyNone THEN local_path ELSE filename

(***************************************************************************)
(* ConflictResolver and ConflictResolution (conflict_resolver.py).         *)
(***************************************************************************)
\* members of the enum (lines 20-24)
ConflictResolutionMembers == {"SAME_FILE", "DIFFERENT_FILES", "CANCEL"}

\* ConflictResolution.<name>, where the member exists
EnumMember(name) == "ConflictResolution." \o name

\* what resolve_conflict returns (lines 109-117): the string a button set,
\* or None when the dialog was closed
ResolverResults == {"same", "different", "cancel", PyNone}

(***************************************************************************)
(* start_sync (sync_engine.py 53-159), one action per stretch between two  *)
(* reads of stop_requested or two store calls.                             *)
(***************************************************************************)
\* mutant: the except clause re-raises without counting the failure
Failed_NotCounted == stats

\* the except clause of lines 154-159
Failed == [stats EXCEPT !.errors = @ + 1]

\* lines 63-81
StartSync ==
    /\ pc = "start"
    /\ stop_requested' = FALSE
    /\ stats' = ZeroStats
    /\ pc' = "scan_drive"
    /\ UNCHANGED <<driveStore, photosStore, drive_media_files, photos_metadata,
                   comparison_result, resolved, ci, li, completed_operations,
                   scratch, tmpCount, attempted, stopK, scanFailed, cancelSeen,
                   refused>>
    /\ UNCHANGED <<stopCalled, earlier, start_button, stop_button,
                   sync_threads>>
    /\ UNCHANGED <<selected_folder_id, rejected, stopAt, started>>
    /\ progress_reports' = Append(progress_reports, 10)       \* line 81
    /\ UNCHANGED listingVars
    /\ UNCHANGED lastTransfer

\* lines 63-69 of a further call of start_sync on the same engine, after the
\* run of the model has ended. The locals and the histories are those of
\* the new call; the model follows it no further than this reset.
StartSyncAgain ==
    /\ pc \in {"returned", "completed", "failed"}
    /\ earlier' = stats
    /\ stop_requested' = FALSE
    /\ stats' = ZeroStats
    /\ pc' = "restarted"
    /\ drive_media_files' = <<>>
    /\ photos_metadata' = <<>>
    /\ comparison_result' = EmptyResult
    /\ resolved' = <<>>
    /\ ci' = 0
    /\ li' = 0
    /\ completed_operations' = 0
    /\ attempted' = 0
    /\ stopK' = -1
    /\ scanFailed' = FALSE
    /\ cancelSeen' = FALSE
    /\ refused' = FALSE
    /\ stopCalled' = FALSE
    /\ progress_reports' = <<>>
    /\ stopAt' = [pc |-> "none", attempted |-> 0]
    /\ started' = <<>>
    /\ lastTransfer' = NoTransfer
    /\ UNCHANGED <<driveStore, photosStore, scratch, tmpCount, start_button,
                   stop_button, sync_threads, selected_folder_id, rejected>>
    /\ UNCHANGED listingVars

\* SyncEngine.stop_sync (lines 161-164)
SetStopRequested ==
    /\ stop_requested' = TRUE
    /\ stopK' = IF ~stop_requested
                   /\ pc \in {"check_stop", "upload_loop", "download_loop"}
                THEN completed_operations ELSE stopK
    /\ stopCalled' = TRUE
    /\ stopAt' = IF ~stop_requested
                 THEN [pc |-> pc, attempted |-> attempted] ELSE stopAt

\* stop_sync() called on the engine by any thread, at any moment after the
\* engine was created
StopSync ==
    /\ pc # "idle"
    /\ SetStopRequested
    /\ UNCHANGED <<driveStore, photosStore, pc, stats, drive_media_files,
                   photos_metadata, comparison_result, resolved, ci, li,
                   completed_operations, scratch, tmpCount, attempted,
                   scanFailed, cancelSeen, refused, earlier, start_button,
                   stop_button, sync_threads, selected_folder_id, rejected,
                   progress_reports, started>>
    /\ UNCHANGED listingVars
    /\ UNCHANGED lastTransfer

\* lines 83-100; env "error" is a failure other than HttpError
ScanDrive ==
    /\ pc = "scan_drive"
    /\ \E env \in {"ok", "http_root", "http_sub", "error"} :
        /\ scanFailed' = (scanFailed \/ env # "ok")
        /\ IF env = "error"
           THEN /\ stats' = Failed
                /\ pc' = "failed"
                /\ UNCHANGED <<drive_media_files, cancelSeen>>
           ELSE /\ drive_media_files' =
                     SelectSeq(GetFolderContents(driveStore, env), IsMediaFile)
                /\ pc' = IF stop_requested THEN "returned" ELSE "scan_photos"
                /\ cancelSeen' = (cancelSeen \/ stop_requested)
                /\ UNCHANGED stats
    /\ UNCHANGED <<driveStore, photosStore, stop_requested, photos_metadata,
                   comparison_result, resolved, ci, li, completed_operations,
                   scratch, tmpCount, attempted, stopK, refused>>
    /\ UNCHANGED <<stopCalled, earlier, start_button, stop_button,
                   sync_threads>>
    /\ UNCHANGED <<selected_folder_id, rejected, stopAt, started>>
    /\ progress_reports' = IF pc' = "scan_photos"              \* line 100
                           THEN Append(progress_reports, 20)
                           ELSE progress_reports
    /\ UNCHANGED listingVars
    /\ UNCHANGED lastTransfer

\* lines 102-119
ScanPhotos ==
    /\ pc = "scan_photos"
    /\ \E env \in {"ok", "http_error", "error"} :
        /\ scanFailed' = (scanFailed \/ env # "ok")
        /\ IF env = "error"
           THEN /\ stats' = Failed
                /\ pc' = "failed"
                /\ UNCHANGED <<photos_metadata, cancelSeen>>
           ELSE /\ photos_metadata' =
                     LET items == GetAllMediaItems(photosStore, env)
                     IN  [i \in 1..Len(items) |-> ParseMediaMetadata(items[i])]
                /\ pc' = IF stop_requested THEN "returned" ELSE "compare"
                /\ cancelSeen' = (cancelSeen \/ stop_requested)
                /\ UNCHANGED stats
    /\ UNCHANGED <<driveStore, photosStore, stop_requested, drive_media_files,
                   comparison_result, resolved, ci, li, completed_operations,
                   scratch, tmpCount, attempted, stopK, refused>>
    /\ UNCHANGED <<stopCalled, earlier, start_button, stop_button,
                   sync_threads>>
    /\ UNCHANGED <<selected_folder_id, rejected, stopAt, started>>
    /\ progress_reports' = IF pc' = "compare"                  \* line 119
                           THEN Append(progress_reports, 30)
                           ELSE progress_reports
    /\ UNCHANGED listingVars
    /\ UNCHANGED lastTransfer

\* lines 121-127
Compare ==
    /\ pc = "compare"
    /\ LET r == CompareFiles(drive_media_files, photos_metadata)
       IN  IF r.raised
           THEN /\ stats' = Failed
                /\ pc' = "failed"
                /\ UNCHANGED <<comparison_result, cancelSeen, ci, resolved>>
           ELSE /\ comparison_result' = r
                /\ pc' = IF stop_requested THEN "returned"
                         ELSE IF r.conflicts # <<>> THEN "resolve"
                         ELSE "check_stop"
                /\ cancelSeen' = (cancelSeen \/ stop_requested)
                /\ ci' = 1
                /\ resolved' = <<>>
                /\ UNCHANGED stats
    /\ UNCHANGED <<driveStore, photosStore, stop_requested, drive_media_files,
                   photos_metadata, li, completed_operations, scratch,
                   tmpCount, attempted, stopK, scanFailed, refused>>
    /\ UNCHANGED <<stopCalled, earlier, start_button, stop_button,
                   sync_threads>>
    /\ UNCHANGED <<selected_folder_id, rejected, progress_reports, stopAt,
                   started>>
    /\ UNCHANGED listingVars
    /\ UNCHANGED lastTransfer

(***************************************************************************)
(* _resolve_conflicts (lines 289-333).                                     *)
(***************************************************************************)
\* resolution == ConflictResolution.CANCEL (line 326)
IsCancel(resolution) ==
    /\ "CANCEL" \in ConflictResolutionMembers
    /\ resolution = EnumMember("CANCEL")

\* mutant: the loop walks the list from its end
ConflictAt_Reversed(conflicts, i) == conflicts[Len(conflicts) + 1 - i]

\* the conflict the i-th pass of `for conflict in conflicts` (line 302) takes
ConflictAt(conflicts, i) == conflicts[i]

\* mutant: a conflict answered cancel is not counted
ConflictsResolvedAfter_SkipCancel(n, resolution) ==
    IF resolution = "cancel" THEN n ELSE n + 1

\* self.stats['conflicts_resolved'] += 1 (line 324), before the answer is
\* looked at
ConflictsResolvedAfter(n, resolution) == n + 1

\* one pass of the loop body, lines 307-331: the adjudicator answers
ResolveConflict ==
    /\ pc = "resolve"
    /\ ci <= Len(comparison_result.conflicts)
    /\ ~stop_requested
    /\ \E resolution \in ResolverResults :
        /\ resolved' = Append(resolved,
              [drive_file |->
                  ConflictAt(comparison_result.conflicts, ci).drive_file,
               photos_item |->
                  ConflictAt(comparison_result.conflicts, ci).photos_item,
               resolution |-> resolution])
        /\ stats' = [stats EXCEPT !.conflicts_resolved =
                                    ConflictsResolvedAfter(@, resolution)]
        /\ cancelSeen' = (cancelSeen \/ resolution = "cancel")
        /\ IF IsCancel(resolution)
           THEN stop_requested' = TRUE /\ pc' = "fold" /\ ci' = ci
           ELSE stop_requested' = stop_requested /\ pc' = "resolve" /\ ci' = ci + 1
    /\ UNCHANGED <<driveStore, photosStore, drive_media_files, photos_metadata,
                   comparison_result, li, completed_operations, scratch,
                   tmpCount, attempted, stopK, scanFailed, refused>>
    /\ UNCHANGED <<stopCalled, earlier, start_button, stop_button,
                   sync_threads>>
    /\ UNCHANGED <<selected_folder_id, rejected, progress_reports, stopAt,
                   started>>
    /\ UNCHANGED listingVars
    /\ UNCHANGED lastTransfer

\* mutant: the transfers follow the adjudication directly, the decisions
\* not folded into the plan
ResolveExit_SkipFold ==
    /\ pc = "resolve"
    /\ ci > Len(comparison_result.conflicts) \/ stop_requested
    /\ pc' = "check_stop"
    /\ cancelSeen' = (cancelSeen \/ stop_requested)
    /\ UNCHANGED <<driveStore, photosStore, stop_requested, stats,
                   drive_media_files, photos_metadata, comparison_result,
                   resolved, ci, li, completed_operations, scratch, tmpCount,
                   attempted, stopK, scanFailed, refused>>
    /\ UNCHANGED <<stopCalled, earlier, start_button, stop_button,
                   sync_threads>>
    /\ UNCHANGED <<selected_folder_id, rejected, progress_reports, stopAt,
                   started>>
    /\ UNCHANGED listingVars
    /\ UNCHANGED lastTransfer

\* the loop ends: the list is exhausted, or the break of lines 303-305
ResolveExit ==
    /\ pc = "resolve"
    /\ ci > Len(comparison_result.conflicts) \/ stop_requested
    /\ pc' = "fold"
    /\ cancelSeen' = (cancelSeen \/ stop_requested)
    /\ UNCHANGED <<driveStore, photosStore, stop_requested, stats,
                   drive_media_files, photos_metadata, comparison_result,
                   resolved, ci, li, completed_operations, scratch, tmpCount,
                   attempted, stopK, scanFailed, refused>>
    /\ UNCHANGED <<stopCalled, earlier, start_button, stop_button,
                   sync_threads>>
    /\ UNCHANGED <<selected_folder_id, rejected, progress_reports, stopAt,
                   started>>
    /\ UNCHANGED listingVars
    /\ UNCHANGED lastTransfer

(***************************************************************************)
(* _update_comparison_with_resolved_conflicts (lines 335-355).             *)
(***************************************************************************)
\* the loop of lines 345-355; evaluating ConflictResolution.<name> for a
\* name the enum does not define raises AttributeError
RECURSIVE FoldResolved(_, _)
FoldResolved(r, rs) ==
    IF rs = <<>> THEN r
    ELSE
    LET h == Head(rs)
        pair == [drive_file |-> h.drive_file, photos_item |-> h.photos_item]
    IN  IF "SAME" \notin ConflictResolutionMembers
        THEN [r EXCEPT !.raised = TRUE]
        ELSE IF h.resolution = EnumMember("SAME")
        THEN FoldResolved([r EXCEPT !.matches = Append(@, pair)], Tail(rs))
        ELSE IF "DIFFERENT" \notin ConflictResolutionMembers
        THEN [r EXCEPT !.raised = TRUE]
        ELSE IF h.resolution = EnumMember("DIFFERENT")
        THEN FoldResolved(
                [r EXCEPT !.drive_only = Append(@, h.drive_file),
                          !.photos_only = Append(@, h.photos_item)],
                Tail(rs))
        ELSE FoldResolved(r, Tail(rs))

UpdateComparisonWithResolvedConflicts(r, rs) ==
    FoldResolved([r EXCEPT !.conflicts = <<>>], rs)

\* line 137
Fold ==
    /\ pc = "fold"
    /\ LET r == UpdateComparisonWithResolvedConflicts(comparison_result,
                                                      resolved)
       IN  /\ comparison_result' = [r EXCEPT !.raised = FALSE]
           /\ IF r.raised
              THEN stats' = Failed /\ pc' = "failed"
              ELSE stats' = stats /\ pc' = "check_stop"
    /\ UNCHANGED <<driveStore, photosStore, stop_requested, drive_media_files,
                   photos_metadata, resolved, ci, li, completed_operations,
                   scratch, tmpCount, attempted, stopK, scanFailed, cancelSeen,
                   refused>>
    /\ UNCHANGED <<stopCalled, earlier, start_button, stop_button,
                   sync_threads>>
    /\ UNCHANGED <<selected_folder_id, rejected, progress_reports, stopAt,
                   started>>
    /\ UNCHANGED listingVars
    /\ UNCHANGED lastTransfer

(***************************************************************************)
(* _perform_sync_operations (lines 357-435).                               *)
(***************************************************************************)
\* total_operations (line 369)
TransferTotal ==
    Len(comparison_result.drive_only) + Len(comparison_result.photos_only)

\* mutant: the empty plan is reported twice
EmptyPlanReports_Twice == <<100, 100>>

\* what _perform_sync_operations reports when total_operations is 0
\* (lines 371-377)
EmptyPlanReports == <<100>>

\* mutant: the share of the transfer phase is not halved
ProgressAfter_Overshoot(completed, total) ==
    50 + (100 * completed) \div total

\* mutant: the report lags one unit behind
ProgressAfter_Lagging(completed, total) ==
    50 + (50 * (completed - 1)) \div total

\* int(50 + (completed_operations / total_operations) * 50), lines 402-403
\* and 428-429. The float expression equals the exact floor for every
\* 1 <= completed <= total <= 2000 (computed with the interpreter), so it is
\* taken on the integers.
ProgressAfter(completed, total) == 50 + (50 * completed) \div total

\* lines 139-144 and 369-380
PerformSyncOperations ==
    /\ pc = "check_stop"
    /\ IF stop_requested
       THEN pc' = "returned" /\ cancelSeen' = TRUE
       ELSE /\ cancelSeen' = cancelSeen
            /\ pc' = IF Len(comparison_result.drive_only)
                        + Len(comparison_result.photos_only) = 0
                     THEN "completed" ELSE "upload_loop"
    /\ completed_operations' = 0
    /\ li' = 1
    /\ UNCHANGED <<driveStore, photosStore, stop_requested, stats,
                   drive_media_files, photos_metadata, comparison_result,
                   resolved, ci, scratch, tmpCount, attempted, stopK,
                   scanFailed, refused>>
    /\ UNCHANGED <<stopCalled, earlier, start_button, stop_button,
                   sync_threads>>
    /\ UNCHANGED <<selected_folder_id, rejected, stopAt, started>>
    /\ progress_reports' =
         IF stop_requested THEN progress_reports
         ELSE IF pc' = "completed"
         THEN Append(progress_reports, 50) \o EmptyPlanReports  \* 144, 376
         ELSE Append(progress_reports, 50)                      \* line 144
    /\ UNCHANGED listingVars
    /\ UNCHANGED lastTransfer

\* mutant: the first loop does not look at the flag
UploadLoopContinues_NoCheck == TRUE

\* mutant: the first loop is left before its first item, the second loop
\* runs all the same
UploadLoopContinues_Skipped == FALSE

\* `if self.stop_requested: break` of line 383, negated
UploadLoopContinues == ~stop_requested

\* mutant: the second loop does not look at the flag
DownloadLoopContinues_NoCheck == TRUE

\* `if self.stop_requested: break` of line 409, negated
DownloadLoopContinues == ~stop_requested

\* lines 382-393: the next Drive-only file is taken up
UploadBegin ==
    /\ pc = "upload_loop"
    /\ li <= Len(comparison_result.drive_only)
    /\ UploadLoopContinues
    /\ pc' = "uploading"
    /\ attempted' = attempted + 1
    /\ started' = Append(started, comparison_result.drive_only[li].id)
    /\ UNCHANGED <<driveStore, photosStore, stop_requested, stats,
                   drive_media_files, photos_metadata, comparison_result,
                   resolved, ci, li, completed_operations, scratch, tmpCount,
                   stopK, scanFailed, cancelSeen, refused>>
    /\ UNCHANGED <<stopCalled, earlier, start_button, stop_button,
                   sync_threads>>
    /\ UNCHANGED <<selected_folder_id, rejected, progress_reports, stopAt>>
    /\ UNCHANGED listingVars
    /\ UNCHANGED lastTransfer

\* What a single-item transfer did (lines 448-473, 486-515): its return
\* value, the temporary files it left behind, whether the destination store
\* took the item, whether the staging download reported success, whether the
\* destination's upload primitive was invoked.
\* the staging download returned False or raised: `return False` of line
\* 455 / 493, or the except clause
NotStaged ==
    [success |-> FALSE, leaked |-> 1, stored |-> FALSE,
     staged |-> FALSE, pushed |-> FALSE]

\* the upload primitive raised: the except clause returns False
PushRaised ==
    [success |-> FALSE, leaked |-> 1, stored |-> FALSE,
     staged |-> TRUE, pushed |-> TRUE]

\* the upload primitive returned None
PushRefused ==
    [success |-> FALSE, leaked |-> 0, stored |-> FALSE,
     staged |-> TRUE, pushed |-> TRUE]

\* the upload primitive returned the new item
Pushed ==
    [success |-> TRUE, leaked |-> 0, stored |-> TRUE,
     staged |-> TRUE, pushed |-> TRUE]

\* mutant: a push that returned None counts as a success
UploadDriveFileToPhotos_NoneCounts(drive_file, dl, ul) ==
    IF dl = "http_error" THEN NotStaged
    ELSE IF dl = "error" THEN NotStaged
    ELSE IF ul = "error" THEN PushRaised
    ELSE IF ul = "none"
    THEN [success |-> TRUE, leaked |-> 0, stored |-> FALSE,
          staged |-> TRUE, pushed |-> TRUE]
    ELSE Pushed

\* mutant: the push is made whatever the staging download reported
UploadDriveFileToPhotos_PushAnyway(drive_file, dl, ul) ==
    IF dl # "ok"
    THEN [success |-> ul = "ok", leaked |-> 0, stored |-> ul = "ok",
          staged |-> FALSE, pushed |-> TRUE]
    ELSE IF ul = "error" THEN PushRaised
    ELSE IF ul = "none" THEN PushRefused
    ELSE Pushed

\* _upload_drive_file_to_photos (lines 437-473). dl is what
\* drive_manager.download_file does (ok / HttpError caught: False / another
\* exception), ul what photos_manager.upload_media_item does (an id / None /
\* an exception other than HttpError). leaked counts the temporary file when
\* os.unlink (line 460) is not reached.
UploadDriveFileToPhotos(drive_file, dl, ul) ==
    IF dl = "http_error" THEN NotStaged
    ELSE IF dl = "error" THEN NotStaged
    ELSE IF ul = "error" THEN PushRaised
    ELSE IF ul = "none" THEN PushRefused
    ELSE Pushed

\* lines 393-406: the transfer in flight ends
UploadEnd ==
    /\ pc = "uploading"
    /\ \E dl \in {"ok", "http_error", "error"}, ul \in {"ok", "none", "error"},
          ts \in {Aware(0), Aware(Far)} :
        LET drive_file == comparison_result.drive_only[li]
            temp_path == TmpName(tmpCount + 1)
            res == UploadDriveFileToPhotos(drive_file, dl, ul)
        IN  /\ tmpCount' = tmpCount + 1
            /\ scratch' = scratch + res.leaked
            /\ photosStore' =
                 IF res.stored
                 THEN Append(photosStore,
                        MediaItem(PhotosId(NumNames + tmpCount + 1),
                                  UploadedFilename(temp_path, PyNone), ts))
                 ELSE photosStore
            /\ refused' = (refused \/ dl # "ok" \/ ul # "ok")
            /\ stats' = IF res.success
                        THEN [stats EXCEPT !.drive_to_photos_uploads = @ + 1]
                        ELSE [stats EXCEPT !.errors = @ + 1]
            /\ lastTransfer' = [staged |-> res.staged, pushed |-> res.pushed]
    /\ completed_operations' = completed_operations + 1
    /\ li' = li + 1
    /\ pc' = "upload_loop"
    /\ UNCHANGED <<driveStore, stop_requested, drive_media_files,
                   photos_metadata, comparison_result, resolved, ci, attempted,
                   stopK, scanFailed, cancelSeen>>
    /\ UNCHANGED <<stopCalled, earlier, start_button, stop_button,
                   sync_threads>>
    /\ UNCHANGED <<selected_folder_id, rejected, stopAt, started>>
    /\ progress_reports' =                                    \* lines 401-403
         Append(progress_reports,
                ProgressAfter(completed_operations + 1, TransferTotal))
    /\ UNCHANGED listingVars

\* the first loop ends: exhausted, or the break of line 385
UploadLoopExit ==
    /\ pc = "upload_loop"
    /\ li > Len(comparison_result.drive_only) \/ ~UploadLoopContinues
    /\ pc' = "download_loop"
    /\ li' = 1
    /\ cancelSeen' = (cancelSeen \/ li <= Len(comparison_result.drive_only))
    /\ UNCHANGED <<driveStore, photosStore, stop_requested, stats,
                   drive_media_files, photos_metadata, comparison_result,
                   resolved, ci, completed_operations, scratch, tmpCount,
                   attempted, stopK, scanFailed, refused>>
    /\ UNCHANGED <<stopCalled, earlier, start_button, stop_button,
                   sync_threads>>
    /\ UNCHANGED <<selected_folder_id, rejected, progress_reports, stopAt,
                   started>>
    /\ UNCHANGED listingVars
    /\ UNCHANGED lastTransfer

\* lines 408-419: the next Photos-only item is taken up
DownloadBegin ==
    /\ pc = "download_loop"
    /\ li <= Len(comparison_result.photos_only)
    /\ DownloadLoopContinues
    /\ pc' = "downloading"
    /\ attempted' = attempted + 1
    /\ started' = Append(started, comparison_result.photos_only[li].id)
    /\ UNCHANGED <<driveStore, photosStore, stop_requested, stats,
                   drive_media_files, photos_metadata, comparison_result,
                   resolved, ci, li, completed_operations, scratch, tmpCount,
                   stopK, scanFailed, cancelSeen, refused>>
    /\ UNCHANGED <<stopCalled, earlier, start_button, stop_button,
                   sync_threads>>
    /\ UNCHANGED <<selected_folder_id, rejected, progress_reports, stopAt>>
    /\ UNCHANGED listingVars
    /\ UNCHANGED lastTransfer

\* _download_photos_item_to_drive (lines 475-515): the engine hands
\* download_media_item the item's id (line 490). ul is what
\* drive_manager.upload_file does.
DownloadPhotosItemToDrive(photos_item, dl, ul) ==
    IF ~DownloadMediaItem(PyStr(photos_item.id), dl) THEN NotStaged
    ELSE IF ul = "error" THEN PushRaised
    ELSE IF ul = "none" THEN PushRefused
    ELSE Pushed

\* lines 419-432: the transfer in flight ends
DownloadEnd ==
    /\ pc = "downloading"
    /\ \E dl \in {"ok", "error"}, ul \in {"ok", "none", "error"},
          ts \in {Aware(0), Aware(Far)} :
        LET photos_item == comparison_result.photos_only[li]
            res == DownloadPhotosItemToDrive(photos_item, dl, ul)
        IN  /\ tmpCount' = tmpCount + 1
            /\ scratch' = scratch + res.leaked
            /\ driveStore' =
                 IF res.stored
                 THEN Append(driveStore,
                        DriveFile(DriveId(NumNames + tmpCount + 1),
                                  photos_item.filename, "100", ts, "root"))
                 ELSE driveStore
            /\ refused' = (refused \/ dl # "ok" \/ ul # "ok")
            /\ stats' = IF res.success
                        THEN [stats EXCEPT !.photos_to_drive_downloads = @ + 1]
                        ELSE [stats EXCEPT !.errors = @ + 1]
            /\ lastTransfer' = [staged |-> res.staged, pushed |-> res.pushed]
    /\ completed_operations' = completed_operations + 1
    /\ li' = li + 1
    /\ pc' = "download_loop"
    /\ UNCHANGED <<photosStore, stop_requested, drive_media_files,
                   photos_metadata, comparison_result, resolved, ci, attempted,
                   stopK, scanFailed, cancelSeen>>
    /\ UNCHANGED <<stopCalled, earlier, start_button, stop_button,
                   sync_threads>>
    /\ UNCHANGED <<selected_folder_id, rejected, stopAt, started>>
    /\ progress_reports' =                                    \* lines 427-429
         Append(progress_reports,
                ProgressAfter(completed_operations + 1, TransferTotal))
    /\ UNCHANGED listingVars

\* the second loop ends (exhausted, or the break of line 411); lines 434-152
DownloadLoopExit ==
    /\ pc = "download_loop"
    /\ li > Len(comparison_result.photos_only) \/ ~DownloadLoopContinues
    /\ pc' = "completed"
    /\ cancelSeen' = (cancelSeen \/ li <= Len(comparison_result.photos_only))
    /\ UNCHANGED <<driveStore, photosStore, stop_requested, stats,
                   drive_media_files, photos_metadata, comparison_result,
                   resolved, ci, li, completed_operations, scratch, tmpCount,
                   attempted, stopK, scanFailed, refused>>
    /\ UNCHANGED <<stopCalled, earlier, start_button, stop_button,
                   sync_threads>>
    /\ UNCHANGED <<selected_folder_id, rejected, stopAt, started>>
    /\ progress_reports' = Append(progress_reports, 100)      \* line 435
    /\ UNCHANGED listingVars
    /\ UNCHANGED lastTransfer

(***************************************************************************)
(* Application (app.py): the Start Sync and Stop Sync buttons. The engine  *)
(* of the model is the one the first press of Start Sync created; a later  *)
(* press creates another engine and another worker thread, which the model *)
(* counts and does not follow.                                             *)
(***************************************************************************)
\* Application.on_folder_selected (app.py 234-255): possible at any time,
\* a run in progress included
OnFolderSelected ==
    /\ selected_folder_id' = "folder"                     \* line 250
    /\ start_button' = "normal"                           \* line 252
    /\ UNCHANGED <<driveStore, photosStore, pc, stop_requested, stats,
                   drive_media_files, photos_metadata, comparison_result,
                   resolved, ci, li, completed_operations, scratch, tmpCount,
                   attempted, stopK, scanFailed, cancelSeen, refused,
                   stopCalled, earlier, stop_button, sync_threads, rejected,
                   progress_reports, stopAt, started>>
    /\ UNCHANGED listingVars
    /\ UNCHANGED lastTransfer

\* mutant: start_sync does not look at the selected folder
NoFolderSelected_Never == FALSE

\* `if not self.selected_folder_id` (app.py 259)
NoFolderSelected == selected_folder_id = PyNone

\* Application.start_sync (app.py 257-294). The Start Sync button invokes it
\* only while enabled; before the first run it may also be called directly
\* (the button stays disabled until a folder is selected).
AppStartSync ==
    /\ start_button = "normal" \/ sync_threads = 0
    /\ sync_threads < MaxThreads
    /\ IF NoFolderSelected
       THEN /\ rejected' = TRUE                           \* lines 260-261
            /\ UNCHANGED <<start_button, stop_button, sync_threads, pc>>
       ELSE /\ start_button' = "disabled"                 \* line 276
            /\ stop_button' = "normal"                    \* line 277
            /\ sync_threads' = sync_threads + 1           \* lines 282-291
            /\ pc' = IF sync_threads = 0 THEN "start" ELSE pc  \* lines 268-273
            /\ UNCHANGED rejected
    /\ UNCHANGED <<driveStore, photosStore, stop_requested, stats,
                   drive_media_files, photos_metadata, comparison_result,
                   resolved, ci, li, completed_operations, scratch, tmpCount,
                   attempted, stopK, scanFailed, cancelSeen, refused,
                   stopCalled, earlier, selected_folder_id, progress_reports,
                   stopAt, started>>
    /\ UNCHANGED listingVars
    /\ UNCHANGED lastTransfer

\* Application.stop_sync (app.py 296-303), bound to the Stop Sync button:
\* self.sync_engine is the engine of the latest press of Start Sync
AppStopSync ==
    /\ stop_button = "normal"
    /\ IF sync_threads = 1
       THEN SetStopRequested                              \* line 299
       ELSE UNCHANGED <<stop_requested, stopK, stopCalled, stopAt>>
    /\ start_button' = "normal"                           \* line 302
    /\ stop_button' = "disabled"                          \* line 303
    /\ UNCHANGED <<driveStore, photosStore, pc, stats, drive_media_files,
                   photos_metadata, comparison_result, resolved, ci, li,
                   completed_operations, scratch, tmpCount, attempted,
                   scanFailed, cancelSeen, refused, earlier, sync_threads,
                   selected_folder_id, rejected, progress_reports, started>>
    /\ UNCHANGED listingVars
    /\ UNCHANGED lastTransfer

Next ==
    \/ StartSync
    \/ StartSyncAgain
    \/ StopSync
    \/ ScanDrive
    \/ ScanPhotos
    \/ Compare
    \/ ResolveConflict
    \/ ResolveExit
    \/ Fold
    \/ PerformSyncOperations
    \/ UploadBegin
    \/ UploadEnd
    \/ UploadLoopExit
    \/ DownloadBegin
    \/ DownloadEnd
    \/ DownloadLoopExit
    \/ OnFolderSelected
    \/ AppStartSync
    \/ AppStopSync

Spec == Init /\ [][Next]_vars

(***************************************************************************)
(* Properties of the classification (SpecCompare).                         *)
(***************************************************************************)
Returned == pc = "compared" /\ ~comparison_result.raised

\* number of entries of the result that hold the Drive file with this id
LeftOccurrences(r, id) ==
    Cardinality({i \in 1..Len(r.matches) : r.matches[i].drive_file.id = id})
  + Cardinality({i \in 1..Len(r.conflicts) : r.conflicts[i].drive_file.id = id})
  + Cardinality({i \in 1..Len(r.drive_only) : r.drive_only[i].id = id})

\* number of entries of the result that hold the Photos item with this id
RightOccurrences(r, id) ==
    Cardinality({i \in 1..Len(r.matches) : r.matches[i].photos_item.id = id})
  + Cardinality({i \in 1..Len(r.conflicts) : r.conflicts[i].photos_item.id = id})
  + Cardinality({i \in 1..Len(r.photos_only) : r.photos_only[i].id = id})

\* C1: after _compare_files every scanned Drive file is held by exactly one
\* entry of matches, conflicts or drive_only, and every scanned Photos item
\* by exactly one entry of matches, conflicts or photos_only, same-named
\* items of one store included.
C1_PartitionComplete ==
    Returned =>
        /\ \A i \in 1..Len(drive_media_files) :
             LeftOccurrences(comparison_result, drive_media_files[i].id) = 1
        /\ \A i \in 1..Len(photos_metadata) :
             RightOccurrences(comparison_result, photos_metadata[i].id) = 1

\* two same-named files in each store, one pair joined, the others left over
C1_Witness ==
    /\ Returned
    /\ Len(drive_media_files) = 2
    /\ Len(photos_metadata) = 2
    /\ Lower(drive_media_files[1].name) = Lower(drive_media_files[2].name)
    /\ Lower(photos_metadata[1].filename) = Lower(photos_metadata[2].filename)
    /\ Len(comparison_result.matches) + Len(comparison_result.conflicts) = 1
    /\ Len(comparison_result.drive_only) = 1
    /\ Len(comparison_result.photos_only) = 1

\* the pair (d, p) is an entry of the category
Holds(category, d, p) ==
    \E i \in 1..Len(category) :
        category[i].drive_file.id = d.id /\ category[i].photos_item.id = p.id

SameNameKey(d, p) == Lower(d.name) = Lower(p.filename)

\* no other scanned item of either store has the pair's NameKey
OnlyPairOfKey(d, p) ==
    /\ \A i \in 1..Len(drive_media_files) :
         Lower(drive_media_files[i].name) = Lower(d.name)
            => drive_media_files[i].id = d.id
    /\ \A i \in 1..Len(photos_metadata) :
         Lower(photos_metadata[i].filename) = Lower(p.filename)
            => photos_metadata[i].id = p.id

\* both timestamps parse, to instants that can be subtracted
Comparable(d, p) ==
    /\ d.createdTime.k \in {"aware", "naive"}
    /\ d.createdTime.k = p.creation_time.k

WithinADay(d, p) == Abs(d.createdTime.t - p.creation_time.t) <= 24 * 3600

\* C9: a same-named pair whose creation timestamps are both present and
\* parseable is Matched iff the timestamps are at most 24 hours apart (24
\* hours exactly included) and Conflict otherwise; with several same-named
\* items in a store, whichever pair is classified obeys the same rule.
C9_ToleranceBoundary ==
    Returned =>
        \A i \in 1..Len(drive_media_files), j \in 1..Len(photos_metadata) :
            LET d == drive_media_files[i]
                p == photos_metadata[j]
            IN  (SameNameKey(d, p) /\ Comparable(d, p)) =>
                  /\ Holds(comparison_result.matches, d, p) => WithinADay(d, p)
                  /\ Holds(comparison_result.conflicts, d, p) => ~WithinADay(d, p)
                  /\ OnlyPairOfKey(d, p) =>
                       /\ Holds(comparison_result.matches, d, p) <=> WithinADay(d, p)
                       /\ Holds(comparison_result.conflicts, d, p) <=> ~WithinADay(d, p)

\* a pair exactly 24 hours apart that was matched
C9_Witness ==
    /\ Returned
    /\ \E i \in 1..Len(comparison_result.matches) :
         LET m == comparison_result.matches[i]
         IN  /\ Comparable(m.drive_file, m.photos_item)
             /\ Abs(m.drive_file.createdTime.t - m.photos_item.creation_time.t)
                  = 24 * 3600

\* the timestamp is absent (missing key, None, "") or does not parse
Unusable(ts) == ts.k \in {"missing", "empty", "bad"}

\* C10: a same-named pair in which either creation timestamp is absent or
\* unparseable is never Matched, and is a Conflict.
C10_MissingTimestampConflicts ==
    Returned =>
        \A i \in 1..Len(drive_media_files), j \in 1..Len(photos_metadata) :
            LET d == drive_media_files[i]
                p == photos_metadata[j]
            IN  (/\ SameNameKey(d, p)
                 /\ (Unusable(d.createdTime) \/ Unusable(p.creation_time))) =>
                  /\ ~Holds(comparison_result.matches, d, p)
                  /\ OnlyPairOfKey(d, p) =>
                       Holds(comparison_result.conflicts, d, p)

\* a conflict whose Photos side has no creation time and whose Drive side
\* has a time that does not parse
C10_Witness ==
    /\ Returned
    /\ \E i \in 1..Len(comparison_result.conflicts) :
         LET c == comparison_result.conflicts[i]
         IN  /\ c.photos_item.creation_time.k = "missing"
             /\ c.drive_file.createdTime.k = "bad"


\* C11: _compare_files cannot fail: whatever the scanned items are (size
\* missing or unparseable, timestamp missing or unparseable, name missing),
\* it returns a classification and raises nothing.
C11_CompareCannotFail ==
    pc = "compared" => ~comparison_result.raised


(***************************************************************************)
(* Properties of a run (Spec).                                             *)
(***************************************************************************)
\* what the scans of a following run return when every listing call answers
NextDriveScan == SelectSeq(GetFolderContents(driveStore, "ok"), IsMediaFile)

NextPhotosScan ==
    LET items == GetAllMediaItems(photosStore, "ok")
    IN  [i \in 1..Len(items) |-> ParseMediaMetadata(items[i])]

\* C2: after a run that was not cancelled, whose scans and transfers all
\* succeeded (errors = 0), every Drive-only file is in the Photos library
\* and every Photos-only item in the Drive folder under the same NameKey,
\* and a following run over the stores finds nothing Drive-only or
\* Photos-only.
C2_CleanRunConverges ==
    (pc = "completed" /\ ~stop_requested /\ ~scanFailed /\ stats.errors = 0) =>
        /\ \A i \in 1..Len(comparison_result.drive_only) :
             \E j \in 1..Len(photosStore) :
                Lower(photosStore[j].filename)
                    = Lower(comparison_result.drive_only[i].name)
        /\ \A i \in 1..Len(comparison_result.photos_only) :
             \E j \in 1..Len(driveStore) :
                Lower(driveStore[j].name)
                    = Lower(comparison_result.photos_only[i].filename)
        /\ LET next == CompareFiles(NextDriveScan, NextPhotosScan)
           IN  next.drive_only = <<>> /\ next.photos_only = <<>>

\* the run has ended
Ended == pc \in {"returned", "completed", "failed"}

\* C3: when a listing of either store fails, no transfer is executed from
\* the partial or empty scan result, and the run ends as a failure.
C3_ScanFailureAbortsRun ==
    scanFailed => (attempted = 0 /\ ((Ended /\ ~cancelSeen) => pc = "failed"))

CountedTransfers ==
    stats.drive_to_photos_uploads + stats.photos_to_drive_downloads
        + stats.errors

\* C4: when stop_sync() sets the flag after K transfers have completed and
\* before the next one is started, exactly K single-item transfers are
\* executed in the run and uploads + downloads + errors stays K: the
\* remaining items are neither transferred nor counted as errors.
C4_CancelBetweenTransfers ==
    stopK >= 0 => (attempted = stopK /\ CountedTransfers = stopK)

\* the flag was set after 1 of 2 planned transfers, and the run has ended
C4_Witness ==
    /\ pc = "completed"
    /\ stopK = 1
    /\ TransferTotal = 2
    /\ attempted = 1

\* the conflict folding of line 137 has run
Folded == pc \notin {"resolve", "fold"}

InList(list, item) == \E i \in 1..Len(list) : list[i].id = item.id

\* C5: when the adjudicator answers Same for a conflicting pair, the fold
\* moves the pair into matches, adds neither item to drive_only or
\* photos_only, and the run goes on (it does not fail).
C5_SameFoldsIntoMatches ==
    \A i \in 1..Len(resolved) :
        (resolved[i].resolution = "same" /\ Folded) =>
            /\ pc # "failed"
            /\ Holds(comparison_result.matches,
                     resolved[i].drive_file, resolved[i].photos_item)
            /\ ~InList(comparison_result.drive_only, resolved[i].drive_file)
            /\ ~InList(comparison_result.photos_only, resolved[i].photos_item)
            /\ comparison_result.conflicts = <<>>

\* C6: when the adjudicator answers Different, the fold adds the Drive file
\* to drive_only and the Photos item to photos_only; both are transferred,
\* and when the stores accept both transfers the run of that one pair ends
\* with 1 upload, 1 download and 0 errors.
C6_DifferentSplitsAndTransfers ==
    \A i \in 1..Len(resolved) :
        (resolved[i].resolution = "different" /\ Folded) =>
            /\ pc # "failed"
            /\ InList(comparison_result.drive_only, resolved[i].drive_file)
            /\ InList(comparison_result.photos_only, resolved[i].photos_item)
            /\ (/\ pc = "completed"
                /\ ~stop_requested
                /\ ~refused
                /\ Len(drive_media_files) = 1
                /\ Len(photos_metadata) = 1) =>
                    /\ stats.drive_to_photos_uploads = 1
                    /\ stats.photos_to_drive_downloads = 1
                    /\ stats.errors = 0

\* C7: when the adjudicator answers Cancel on the i-th conflict, it is not
\* invoked for any later conflict, no transfer is started, and after the
\* fold the cancelling pair is in none of the four categories.
C7_CancelStopsProcessing ==
    \A i \in 1..Len(resolved) :
        resolved[i].resolution = "cancel" =>
            /\ Len(resolved) = i
            /\ attempted = 0
            /\ Folded =>
                 /\ ~Holds(comparison_result.matches,
                           resolved[i].drive_file, resolved[i].photos_item)
                 /\ ~Holds(comparison_result.conflicts,
                           resolved[i].drive_file, resolved[i].photos_item)
                 /\ ~InList(comparison_result.drive_only, resolved[i].drive_file)
                 /\ ~InList(comparison_result.photos_only, resolved[i].photos_item)

\* C8: a cancellation, by stop_sync() or by the adjudicator answering
\* cancel, is not an error: start_sync returns normally, nothing is raised
\* and errors is not incremented for it.
C8_CancellationIsNotAnError ==
    cancelSeen => pc # "failed"

\* items of the Photos library that a transfer of the run created
UploadedItems ==
    {j \in 1..Len(photosStore) :
        photosStore[j].id \notin {PhotosId(k) : k \in 1..NumNames}}

\* files of the Drive folder that a transfer of the run created
DownloadedFiles ==
    {j \in 1..Len(driveStore) :
        driveStore[j].id \notin {DriveId(k) : k \in 0..NumNames}}

\* C12: a single item's transfer failure (a store call returning failure or
\* raising) never aborts the run: every finished item adds exactly 1 to one
\* counter, errors when nothing was stored for it and the directional counter
\* when it was; the loops take the items one after the other, each once; and
\* an uncancelled transfer phase over N items ends with N items attempted
\* and uploads + downloads + errors = N.
C12_ItemFailureDoesNotAbort ==
    /\ refused => pc # "failed"
    /\ pc \in {"upload_loop", "uploading", "download_loop", "downloading",
               "completed"} =>
         /\ CountedTransfers = completed_operations
         /\ stats.drive_to_photos_uploads = Cardinality(UploadedItems)
         /\ stats.photos_to_drive_downloads = Cardinality(DownloadedFiles)
    /\ pc = "upload_loop" => (attempted = li - 1 /\ completed_operations = li - 1)
    /\ pc = "uploading" => (attempted = li /\ completed_operations = li - 1)
    /\ (pc = "download_loop" /\ ~cancelSeen) =>
         /\ attempted = Len(comparison_result.drive_only) + li - 1
         /\ completed_operations = attempted
    /\ (pc = "downloading" /\ ~cancelSeen) =>
         /\ attempted = Len(comparison_result.drive_only) + li
         /\ completed_operations = attempted - 1
    /\ (pc = "completed" /\ ~cancelSeen) =>
         /\ attempted = TransferTotal
         /\ CountedTransfers = TransferTotal

\* the first of two uploads failed, the second was still made and stored,
\* and the run ended with 1 error and 1 upload
C12_Witness ==
    /\ pc = "completed"
    /\ ~cancelSeen
    /\ refused
    /\ Len(comparison_result.drive_only) = 2
    /\ stats.errors = 1
    /\ stats.drive_to_photos_uploads = 1
    /\ \E j \in 1..Len(photosStore) : photosStore[j].filename = TmpName(2)

\* C13: every single-item transfer releases its scratch file before it
\* returns, whatever its outcome: between two items and at the end of the
\* run no temporary file of the run is left.
C13_ScratchReleased ==
    pc \notin {"uploading", "downloading"} => scratch = 0

\* C14: when no store refuses a call and the run is not stopped, every
\* Photos-only item is copied into the Drive folder under its own filename
\* and counted in photos_to_drive_downloads, and every Drive-only file is
\* copied to Photos and counted in drive_to_photos_uploads.
C14_TransfersBothWays ==
    (pc = "completed" /\ ~stop_requested /\ ~refused) =>
        /\ stats.photos_to_drive_downloads = Len(comparison_result.photos_only)
        /\ \A i \in 1..Len(comparison_result.photos_only) :
             \E j \in DownloadedFiles :
                driveStore[j].name = comparison_result.photos_only[i].filename
        /\ stats.drive_to_photos_uploads = Len(comparison_result.drive_only)
        /\ Cardinality(UploadedItems) = Len(comparison_result.drive_only)

\* moves of the worker that end the run or wind up what it was doing when
\* stop_sync() was called: they begin no phase and no transfer
WindsUp(from, to) ==
    \/ to \in {"returned", "completed", "failed"}
    \/ <<from, to>> \in {<<"start", "scan_drive">>,
                         <<"resolve", "fold">>,
                         <<"fold", "check_stop">>,
                         <<"uploading", "upload_loop">>,
                         <<"upload_loop", "download_loop">>,
                         <<"downloading", "download_loop">>}

\* C15: no stop request is lost, whenever stop_sync() is called after the
\* worker thread was started (before its first statement included): once
\* stop_sync() has returned, the run begins no transfer and no phase; it
\* only finishes the step it is in.
C15_NoStopRequestLost ==
    [][stopCalled =>
        /\ attempted' = attempted
        /\ pc' # pc => WindsUp(pc, pc')]_vars

\* C16: stop_sync() is idempotent wherever the calls fall in a run: once it
\* has been called, a further call (a step that leaves the worker where it
\* is) changes nothing of the engine, so that the run ends as it would have
\* with the first call alone.
C16_StopIsIdempotent ==
    [][(stopCalled /\ pc' = pc) => stop_requested' = stop_requested]_vars

\* C17: at most one run is active at any time: the application never starts
\* another worker thread while the worker of an earlier press of Start Sync
\* is still executing start_sync.
C17_AtMostOneActiveRun ==
    [][sync_threads' > sync_threads => (sync_threads = 0 \/ Ended)]_vars

\* the run has read stop_requested as set, at a phase boundary or at the
\* head of a transfer loop
FlagObserved ==
    /\ cancelSeen
    /\ \A i \in 1..Len(resolved) : resolved[i].resolution # "cancel"

\* C18: Cancelled is absorbing: a run that has observed the cancellation
\* flag never enters Completed (it does not report 'Synchronization
\* completed successfully!').
C18_CancelledIsAbsorbing ==
    FlagObserved => pc # "completed"

\* C19: an unhandled failure during Scanning or Reconciling aborts the run:
\* start_sync leaves through its except clause with errors incremented by
\* exactly 1 and the failure re-raised, no transfer has been executed, and
\* the run stays in the error state: it reports neither completion nor
\* cancellation afterwards.
C19_UnhandledFailureAborts ==
    /\ [](pc = "failed" =>
            /\ stats.errors = 1
            /\ stats.drive_to_photos_uploads = 0
            /\ stats.photos_to_drive_downloads = 0
            /\ attempted = 0
            /\ tmpCount = 0
            /\ UploadedItems = {}
            /\ DownloadedFiles = {})
    /\ [][pc = "failed" => pc' \notin {"completed", "returned"}]_vars

\* a listing call raised something other than HttpError and the run ended
\* in the error state
C19_Witness ==
    /\ pc = "failed"
    /\ scanFailed
    /\ stats.errors = 1
    /\ photos_metadata = <<>>
    /\ Len(driveStore) + Len(photosStore) > 0

\* C20: every call of start_sync begins with the four counters at 0 and the
\* cancellation flag cleared, whatever an earlier run on the same engine
\* (completed, cancelled or failed) left in them.
C20_CountersResetAtStart ==
    [][(pc \in {"start", "returned", "completed", "failed"} /\ pc' # pc) =>
        /\ stats'.drive_to_photos_uploads = 0
        /\ stats'.photos_to_drive_downloads = 0
        /\ stats'.conflicts_resolved = 0
        /\ stats'.errors = 0
        /\ stop_requested' = FALSE]_vars

\* start_sync was called again after a run that had made one upload and
\* counted one error, and began with all counters at 0
C20_Witness ==
    /\ pc = "restarted"
    /\ earlier.drive_to_photos_uploads = 1
    /\ earlier.errors = 1
    /\ stats.drive_to_photos_uploads = 0
    /\ stats.errors = 0
    /\ ~stop_requested

\* C23: start_sync called while no folder is selected fails fast: no engine
\* is created, no worker thread is started, no store is scanned and nothing
\* is transferred.
C23_NoFolderFailsFast ==
    selected_folder_id = PyNone =>
        /\ sync_threads = 0
        /\ pc = "idle"
        /\ progress_reports = <<>>
        /\ drive_media_files = <<>>
        /\ photos_metadata = <<>>
        /\ attempted = 0
        /\ tmpCount = 0

\* start_sync was called with no folder selected and returned
C23_Witness ==
    /\ rejected
    /\ selected_folder_id = PyNone
    /\ sync_threads = 0
    /\ pc = "idle"

\* the value of the latest progress report
LastProgress == progress_reports[Len(progress_reports)]

\* C21: when the transfer phase is cancelled after K of N units (K < N), the
\* last progress value the run reports is 50 + 50*K/N truncated, not 100.
C21_CancelledProgressIsPartial ==
    (pc = "completed" /\ completed_operations < TransferTotal) =>
        LastProgress = 50 + (50 * completed_operations) \div TransferTotal

\* number of reports of the value
TimesReported(v) ==
    Cardinality({i \in 1..Len(progress_reports) : progress_reports[i] = v})

\* C28: when the transfer plan is empty, the executor reports progress 100
\* exactly once, calls no store primitive, changes no counter and returns.
C28_EmptyPlanReportsOnce ==
    (pc = "completed" /\ TransferTotal = 0) =>
        /\ TimesReported(100) = 1
        /\ LastProgress = 100
        /\ attempted = 0
        /\ tmpCount = 0
        /\ UploadedItems = {}
        /\ DownloadedFiles = {}
        /\ stats.drive_to_photos_uploads = 0
        /\ stats.photos_to_drive_downloads = 0
        /\ stats.errors = 0

\* a run whose two stores matched ended with the reports 10, 20, 30, 50, 100
C28_Witness ==
    /\ pc = "completed"
    /\ TransferTotal = 0
    /\ Len(comparison_result.matches) >= 1
    /\ progress_reports = <<10, 20, 30, 50, 100>>

\* the reports the run made before the transfer phase: 10, 20, 30, 50
ReportsBeforeTransfers == Len(<<10, 20, 30, 50>>)

\* C29: in the transfer phase exactly one report is made per processed
\* unit, and the report after the k-th unit of N is floor(50 + 50*k/N),
\* whether the unit succeeded or failed.
C29_ProgressPerUnit ==
    pc \in {"upload_loop", "uploading", "download_loop", "downloading"} =>
        /\ Len(progress_reports) = ReportsBeforeTransfers + completed_operations
        /\ \A k \in 1..completed_operations :
             progress_reports[ReportsBeforeTransfers + k]
                = 50 + (50 * k) \div TransferTotal

\* two units processed, one failed and one succeeded: reports 75 and 100
C29_Witness ==
    /\ pc = "download_loop"
    /\ TransferTotal = 2
    /\ completed_operations = 2
    /\ stats.errors = 1
    /\ progress_reports = <<10, 20, 30, 50, 75, 100>>

\* C22: conflicts_resolved equals the number of adjudicator invocations of
\* the run: every adjudicated conflict is counted, the one answered cancel
\* included, and a conflict that was never presented is not.
C22_ConflictsResolvedCountsInvocations ==
    pc \notin {"idle", "restarted"} =>
        /\ stats.conflicts_resolved = Len(resolved)
        /\ pc = "resolve" => Len(resolved) = ci - 1

\* two conflicts, the first answered cancel, the second never presented
\* because stop_sync() came first: the count is 1
C22_Witness ==
    /\ pc = "fold"
    /\ Len(comparison_result.conflicts) = 2
    /\ Len(resolved) = 1
    /\ resolved[1].resolution = "cancel"
    /\ stats.conflicts_resolved = 1

\* C30: conflicts are adjudicated in the order _compare_files produced
\* them, one at a time and each at most once: the decisions recorded so far
\* are those for the first conflicts of the list, in list order, and the
\* next invocation is for the conflict that follows them.
C30_ConflictsInOrder ==
    pc \in {"resolve", "fold"} =>
        /\ Len(resolved) <= Len(comparison_result.conflicts)
        /\ \A i \in 1..Len(resolved) :
             /\ resolved[i].drive_file = comparison_result.conflicts[i].drive_file
             /\ resolved[i].photos_item = comparison_result.conflicts[i].photos_item
        /\ pc = "resolve" => ci = Len(resolved) + 1

\* two distinct conflicts, both adjudicated
C30_Witness ==
    /\ pc = "fold"
    /\ Len(resolved) = 2
    /\ resolved[1].drive_file.id # resolved[2].drive_file.id
    /\ resolved[2].drive_file = comparison_result.conflicts[2].drive_file

TransferringPcs == {"upload_loop", "uploading", "download_loop", "downloading"}

\* the positions of a run that has begun and not ended
InRunPcs ==
    {"start", "scan_drive", "scan_photos", "compare", "resolve", "fold",
     "check_stop"} \cup TransferringPcs

\* the place of a position in the order of the phases of start_sync
PhaseRank(p) ==
    CASE p = "start" -> 0
      [] p = "scan_drive" -> 1
      [] p = "scan_photos" -> 2
      [] p = "compare" -> 3
      [] p = "resolve" -> 4
      [] p = "fold" -> 5
      [] p = "check_stop" -> 6
      [] p \in TransferringPcs -> 7
      [] p = "completed" -> 8
      [] OTHER -> 9

\* C25: within one run the phases follow one another in the order left
\* scan, right scan, reconciliation, conflict resolution (only when there is
\* a conflict), transfer, completed: the run never goes back to a phase it
\* has left, never skips a phase other than a conflict resolution with
\* nothing to resolve or a transfer with nothing to transfer, and enters the
\* transfer phase only once the conflicts have been folded into the plan.
C25_PhasesInOrder ==
    [][(pc \in InRunPcs /\ pc' # pc) =>
          /\ PhaseRank(pc') >= PhaseRank(pc)
          /\ pc' \notin {"returned", "failed"} =>
               \/ PhaseRank(pc') = PhaseRank(pc)
               \/ PhaseRank(pc') = PhaseRank(pc) + 1
               \/ /\ pc = "compare"
                  /\ pc' = "check_stop"
                  /\ comparison_result'.conflicts = <<>>
               \/ /\ pc = "check_stop"
                  /\ pc' = "completed"
                  /\ TransferTotal = 0
          /\ pc' = "resolve" => comparison_result'.conflicts # <<>>
          /\ pc' = "check_stop" => comparison_result'.conflicts = <<>>
          /\ pc' \in TransferringPcs => comparison_result'.conflicts = <<>>]_vars

\* a run that went through both scans, the reconciliation and two
\* transfers, and completed
C25_Witness ==
    /\ pc = "completed"
    /\ attempted = 2
    /\ Len(progress_reports) >= 6
    /\ progress_reports[1] = 10
    /\ progress_reports[4] = 50

\* the ids of a list of items, in list order
IdsOf(items) == [i \in 1..Len(items) |-> items[i].id]

\* the transfer plan in the order the executor is to follow: every Drive-only
\* file, then every Photos-only item
PlannedOrder ==
    IdsOf(comparison_result.drive_only) \o IdsOf(comparison_result.photos_only)

\* C27: the executor processes all Drive-only files before any Photos-only
\* item, each list in list order: the transfers started so far are always
\* the first ones of the plan, so no Photos-only item is started while a
\* Drive-only file is unprocessed, and a run cancelled among the Drive-only
\* files starts no Photos-only item at all.
C27_LeftBeforeRight ==
    /\ Len(started) <= Len(PlannedOrder)
    /\ \A i \in 1..Len(started) : started[i] = PlannedOrder[i]

\* one Drive-only file and one Photos-only item, the second being
\* transferred after the first
C27_Witness ==
    /\ pc = "downloading"
    /\ Len(comparison_result.drive_only) = 1
    /\ started = <<comparison_result.drive_only[1].id,
                   comparison_result.photos_only[1].id>>

\* C26: stop_sync() never interrupts a single-item transfer in flight. When
\* the flag is set while an item is being transferred, that item runs to its
\* outcome and is counted, and no later item is started; when it is set
\* between two items, no further item is started; when it is set during a
\* scan, the reconciliation or the conflict phase, no transfer is made.
C26_StopWaitsForItemInFlight ==
    (stop_requested /\ stopAt.pc # "none") =>
        /\ stopAt.pc \in {"scan_drive", "scan_photos", "compare", "resolve",
                          "fold", "check_stop"} =>
             /\ attempted = 0
             /\ stats.drive_to_photos_uploads = 0
             /\ stats.photos_to_drive_downloads = 0
             /\ pc \notin TransferringPcs
        /\ stopAt.pc \in {"upload_loop", "download_loop"} =>
             attempted = stopAt.attempted
        /\ stopAt.pc \in {"uploading", "downloading"} =>
             /\ attempted = stopAt.attempted
             /\ pc \in {"uploading", "downloading"} =>
                  CountedTransfers = attempted - 1
             /\ pc \notin {"uploading", "downloading"} =>
                  CountedTransfers = attempted

\* two Drive-only files, stop_sync() called while the first was in flight:
\* the first was counted, the second never started
C26_Witness ==
    /\ pc = "completed"
    /\ stop_requested
    /\ stopAt.pc = "uploading"
    /\ stopAt.attempted = 1
    /\ Len(comparison_result.drive_only) = 2
    /\ attempted = 1
    /\ CountedTransfers = 1

(***************************************************************************)
(* Same-named items and the join (SpecCompare).                            *)
(***************************************************************************)
\* the Drive file with this id is an entry of drive_only
InDriveOnly(r, id) == \E i \in 1..Len(r.drive_only) : r.drive_only[i].id = id

\* the Photos item with this id is an entry of photos_only
InPhotosOnly(r, id) ==
    \E i \in 1..Len(r.photos_only) : r.photos_only[i].id = id

\* scanned Drive files with this NameKey that the result holds in any category
LeftHeldUnderKey(r, key) ==
    {i \in 1..Len(drive_media_files) :
        /\ Lower(drive_media_files[i].name) = key
        /\ LeftOccurrences(r, drive_media_files[i].id) >= 1}

\* scanned Photos items with this NameKey that the result holds
RightHeldUnderKey(r, key) ==
    {i \in 1..Len(photos_metadata) :
        /\ Lower(photos_metadata[i].filename) = key
        /\ RightOccurrences(r, photos_metadata[i].id) >= 1}

NameKeys == {Lower(n) : n \in CmpNames}

\* C31: the result keeps one descriptor per NameKey and store: when several
\* items of one store share a NameKey, at most one of them is held by the
\* four categories together.
C31_OneDescriptorPerNameKey ==
    Returned =>
        \A key \in NameKeys :
            /\ Cardinality(LeftHeldUnderKey(comparison_result, key)) <= 1
            /\ Cardinality(RightHeldUnderKey(comparison_result, key)) <= 1

\* C32: after _compare_files a Drive file is in drive_only only if no
\* scanned Photos item has its NameKey, and a Photos item is in photos_only
\* only if no scanned Drive file has its NameKey.
C32_OnlyMeansAbsentOpposite ==
    Returned =>
        /\ \A i \in 1..Len(comparison_result.drive_only) :
             \A j \in 1..Len(photos_metadata) :
                ~SameNameKey(comparison_result.drive_only[i], photos_metadata[j])
        /\ \A j \in 1..Len(comparison_result.photos_only) :
             \A i \in 1..Len(drive_media_files) :
                ~SameNameKey(drive_media_files[i],
                             comparison_result.photos_only[j])

\* the scanned Drive files with every size replaced by one value
WithSize(drive_files, size) ==
    [i \in 1..Len(drive_files) |-> [drive_files[i] EXCEPT !.size = size]]

\* a result by the ids it holds
ClassifiedIds(r) ==
    [raised |-> r.raised,
     drive_only |-> IdsOf(r.drive_only),
     photos_only |-> IdsOf(r.photos_only),
     matches |-> [i \in 1..Len(r.matches) |->
                    <<r.matches[i].drive_file.id, r.matches[i].photos_item.id>>],
     conflicts |-> [i \in 1..Len(r.conflicts) |->
                    <<r.conflicts[i].drive_file.id,
                      r.conflicts[i].photos_item.id>>]]

\* C33: the stores are joined on the lower-cased name alone: a Drive file
\* and a Photos item whose names differ at most in letter case are both held
\* by matches or conflicts, neither by drive_only or photos_only, and the
\* outcome of _compare_files is the same whatever the sizes of the Drive
\* files are.
C33_JoinOnLowerCasedNameOnly ==
    pc = "compared" =>
        /\ ClassifiedIds(comparison_result) =
             ClassifiedIds(CompareFiles(WithSize(drive_media_files, "100"),
                                        photos_metadata))
        /\ ~comparison_result.raised =>
             \A i \in 1..Len(drive_media_files), j \in 1..Len(photos_metadata) :
                SameNameKey(drive_media_files[i], photos_metadata[j]) =>
                   /\ ~InDriveOnly(comparison_result, drive_media_files[i].id)
                   /\ ~InPhotosOnly(comparison_result, photos_metadata[j].id)

(***************************************************************************)
(* DriveManager.get_folder_contents followed page by page (SpecListing).   *)
(* Every files().list call answers; the except clause of line 99 is        *)
(* modelled by GetFolderContents above.                                    *)
(***************************************************************************)
Folders == {"root", "s1", "s2"}

\* the pages files().list serves for the folder query of list_folders, per
\* folder: no subfolder, one, two on one page, two on two pages, one inside
\* the other
FolderShapes ==
    { [f \in Folders |-> <<<<>>>>],
      [f \in Folders |-> IF f = "root" THEN <<<<"s1">>>> ELSE <<<<>>>>],
      [f \in Folders |-> IF f = "root" THEN <<<<"s1", "s2">>>> ELSE <<<<>>>>],
      [f \in Folders |-> IF f = "root" THEN <<<<"s1">>, <<"s2">>>>
                         ELSE <<<<>>>>],
      [f \in Folders |-> IF f = "root" THEN <<<<"s1">>>>
                         ELSE IF f = "s1" THEN <<<<"s2">>>> ELSE <<<<>>>>] }

\* a file resource of the listing: the k-th page of folder f holds it
ListedFile(f, k) == [id |-> <<f, k>>, parents |-> f]

InitListing ==
    /\ pc = "list_page"
    /\ selected_folder_id = PyNone
    /\ start_button = "disabled"
    /\ stop_button = "disabled"
    /\ sync_threads = 0
    /\ driveStore = <<>>
    /\ photosStore = <<>>
    /\ drive_media_files = <<>>
    /\ photos_metadata = <<>>
    /\ InitLocals
    /\ \E shape \in FolderShapes, np \in [Folders -> 1..MaxPages],
          full \in [Folders -> SUBSET (1..MaxPages)] :
          driveTree =
            [f \in Folders |->
               [file_pages |->
                  [k \in 1..np[f] |->
                     IF k \in full[f] THEN <<ListedFile(f, k)>> ELSE <<>>],
                folder_pages |-> shape[f]]]
    /\ recursive \in BOOLEAN
    /\ files = <<>>                      \* line 64
    /\ page_token = PyNone               \* line 65

\* the token that asks for the k-th page of a listing
PageToken(k) == "page" \o ToString(k)

\* the page served for pageToken=token: the first one for None
PageOf(pages, token) ==
    IF token = PyNone THEN 1
    ELSE CHOOSE k \in 1..Len(pages) : PageToken(k) = token

\* results.get('nextPageToken') after the page the token names was served:
\* the token of the following page, None after the last one
NextPageToken(pages, token) ==
    IF PageOf(pages, token) < Len(pages)
    THEN PageToken(PageOf(pages, token) + 1)
    ELSE PyNone

\* results.get('files', []) of the page the token names
BatchFiles(pages, token) == pages[PageOf(pages, token)]

\* the while loop of lines 67-87 run to its break
RECURSIVE AllPagesFrom(_, _)
AllPagesFrom(pages, token) ==
    LET next == NextPageToken(pages, token)
    IN  IF next = PyNone THEN BatchFiles(pages, token)
        ELSE BatchFiles(pages, token) \o AllPagesFrom(pages, next)

\* DriveManager.list_folders (lines 28-50): one files().list call without
\* pageToken, so the first page of the folder query
ListFolders(tree, parent_id) == tree[parent_id].folder_pages[1]

\* get_folder_contents(subfolder['id'], recursive=True) of line 93
RECURSIVE SubfolderContents(_, _)
SubfolderContents(tree, folder_id) ==
    LET subfolders == ListFolders(tree, folder_id)
        Extend[i \in 0..Len(subfolders)] ==
            IF i = 0 THEN AllPagesFrom(tree[folder_id].file_pages, PyNone)
            ELSE Extend[i - 1] \o SubfolderContents(tree, subfolders[i])
    IN  Extend[Len(subfolders)]

\* one pass of the while loop (lines 67-87)
ListPage ==
    /\ pc = "list_page"
    /\ files' = files \o BatchFiles(driveTree["root"].file_pages, page_token)
    /\ page_token' = NextPageToken(driveTree["root"].file_pages, page_token)
    /\ pc' = IF page_token' # PyNone THEN "list_page"
             ELSE IF recursive THEN "list_subfolders"
             ELSE "listed"
    /\ UNCHANGED <<driveTree, recursive>>
    /\ UNCHANGED <<driveStore, photosStore, stop_requested, stats,
                   drive_media_files, photos_metadata, comparison_result,
                   resolved, ci, li, completed_operations, scratch, tmpCount,
                   attempted, stopK, scanFailed, cancelSeen, refused>>
    /\ UNCHANGED <<stopCalled, earlier, start_button, stop_button,
                   sync_threads>>
    /\ UNCHANGED <<selected_folder_id, rejected, progress_reports, stopAt,
                   started>>
    /\ UNCHANGED lastTransfer

\* lines 90-94: the subfolders list_folders names, each listed in full
ListSubfolders ==
    /\ pc = "list_subfolders"
    /\ LET subfolders == ListFolders(driveTree, "root")
           Extend[i \in 0..Len(subfolders)] ==
               IF i = 0 THEN files
               ELSE Extend[i - 1] \o SubfolderContents(driveTree, subfolders[i])
       IN  files' = Extend[Len(subfolders)]
    /\ pc' = "listed"
    /\ UNCHANGED <<driveTree, recursive, page_token>>
    /\ UNCHANGED <<driveStore, photosStore, stop_requested, stats,
                   drive_media_files, photos_metadata, comparison_result,
                   resolved, ci, li, completed_operations, scratch, tmpCount,
                   attempted, stopK, scanFailed, cancelSeen, refused>>
    /\ UNCHANGED <<stopCalled, earlier, start_button, stop_button,
                   sync_threads>>
    /\ UNCHANGED <<selected_folder_id, rejected, progress_reports, stopAt,
                   started>>
    /\ UNCHANGED lastTransfer

NextListing == ListPage \/ ListSubfolders

SpecListing == InitListing /\ [][NextListing]_vars

\* the elements of a sequence
Elements(seq) == {seq[i] : i \in 1..Len(seq)}

\* the folders named on any page of the folder query of this folder
ChildFolders(tree, f) ==
    UNION {Elements(tree[f].folder_pages[k]) :
              k \in 1..Len(tree[f].folder_pages)}

\* every folder below this one
RECURSIVE Descendants(_, _)
Descendants(tree, f) ==
    ChildFolders(tree, f)
        \cup UNION {Descendants(tree, c) : c \in ChildFolders(tree, f)}

\* the files on every page of the folder's own listing
OwnFiles(tree, f) ==
    UNION {Elements(tree[f].file_pages[k]) : k \in 1..Len(tree[f].file_pages)}

\* C34: get_folder_contents returns a list that holds, once each, exactly
\* the files of every page of the folder's listing and, when recursive, the
\* files of every page of every descendant folder's listing as well.
C34_ListsEveryPageAndDescendant ==
    pc = "listed" =>
        LET expected ==
              OwnFiles(driveTree, "root")
                \cup (IF recursive
                      THEN UNION {OwnFiles(driveTree, d) :
                                     d \in Descendants(driveTree, "root")}
                      ELSE {})
        IN  /\ Elements(files) = expected
            /\ Len(files) = Cardinality(expected)

\* the reports start_sync makes before it calls _perform_sync_operations
\* (lines 81, 100, 119, 144)
PhaseReports == <<10, 20, 30, 50>>

\* C35: within one run the values passed to progress_callback never
\* decrease and all lie in 10..100, and 10, 20, 30 and 50 are reported, in
\* this order, before the first value of the transfer phase.
C35_ProgressMonotone ==
    /\ \A i \in 1..Len(progress_reports) :
         /\ progress_reports[i] \in 10..100
         /\ i > 1 => progress_reports[i - 1] <= progress_reports[i]
         /\ i <= Len(PhaseReports) => progress_reports[i] = PhaseReports[i]
    /\ (pc \in TransferringPcs \/ attempted > 0) =>
         Len(progress_reports) >= Len(PhaseReports)

\* a completed run of two units: 10, 20, 30, 50, then 75, 100 and the
\* closing 100
C35_Witness ==
    /\ pc = "completed"
    /\ attempted = 2
    /\ progress_reports = <<10, 20, 30, 50, 75, 100, 100>>

\* the ids of the items the pairs of a category hold
PairedIds(pairs) ==
    {pairs[i].drive_file.id : i \in 1..Len(pairs)}
        \cup {pairs[i].photos_item.id : i \in 1..Len(pairs)}

\* C36: every single-item transfer attempted in a run is for an item of
\* drive_only or photos_only as they are after conflict folding, no item is
\* attempted twice, and no item of a pair held by matches, or adjudicated
\* as the same file, is ever passed to a transfer.
C36_OnlyPlannedItemsTransferred ==
    /\ \A i, j \in 1..Len(started) : started[i] = started[j] => i = j
    /\ Len(started) = attempted
    /\ \A i \in 1..Len(started) :
         /\ \/ InDriveOnly(comparison_result, started[i])
            \/ InPhotosOnly(comparison_result, started[i])
         /\ started[i] \notin PairedIds(comparison_result.matches)
         /\ started[i] \notin PairedIds(comparison_result.conflicts)
         /\ started[i] \notin PairedIds(resolved)

\* a run that found one matched pair and one Drive-only file, and
\* transferred the latter
C36_Witness ==
    /\ pc = "completed"
    /\ Len(comparison_result.matches) = 1
    /\ Len(comparison_result.drive_only) = 1
    /\ started = <<comparison_result.drive_only[1].id>>

\* C37: in a single-item transfer the push to the destination store is
\* attempted only after the staging download from the source store reported
\* success: when the staging fails, the destination's upload primitive is
\* not invoked, the destination store is left as it was, and the item is
\* counted as one error and as no upload or download.
C37_PushOnlyAfterStaging ==
    [][(pc \in {"uploading", "downloading"} /\ pc' # pc) =>
          /\ lastTransfer'.pushed => lastTransfer'.staged
          /\ ~lastTransfer'.staged =>
               /\ stats'.errors = stats.errors + 1
               /\ stats'.drive_to_photos_uploads = stats.drive_to_photos_uploads
               /\ stats'.photos_to_drive_downloads =
                    stats.photos_to_drive_downloads
               /\ photosStore' = photosStore
               /\ driveStore' = driveStore]_vars

\* the first Drive-only file could not be downloaded: no push, one error
C37_Witness ==
    /\ pc = "upload_loop"
    /\ attempted = 1
    /\ lastTransfer = [staged |-> FALSE, pushed |-> FALSE]
    /\ stats.errors = 1
    /\ stats.drive_to_photos_uploads = 0

\* C38: no adjudicated conflict vanishes: once the fold of line 137 has run,
\* every pair that was presented to the adjudicator is held by matches, or
\* its two items by drive_only and photos_only, or the run has been
\* cancelled, whatever the adjudicator returned (None included).
C38_NoAdjudicatedConflictVanishes ==
    Folded =>
        \A i \in 1..Len(resolved) :
            \/ Holds(comparison_result.matches,
                     resolved[i].drive_file, resolved[i].photos_item)
            \/ /\ InList(comparison_result.drive_only, resolved[i].drive_file)
               /\ InList(comparison_result.photos_only, resolved[i].photos_item)
            \/ stop_requested

\* the MIME types of the model that name an image or a video
MediaTypes == {"image/jpeg", "IMAGE/JPEG", "video/mp4"}

\* a media file of the Drive folder has this NameKey
MediaFileNamed(key) ==
    \E i \in 1..Len(driveStore) :
        driveStore[i].mimeType \in MediaTypes /\ Lower(driveStore[i].name) = key

\* the comparison of line 121 has been made and its result not yet folded
Classified ==
    pc \in {"resolve", "fold", "check_stop"} \cup TransferringPcs
        \cup {"completed"}

\* C39: only the files of the Drive folder for which is_media_file is true
\* take part in a run. A file that is no image and no video is not in the
\* scanned list, is held by none of the four categories, is never shown to
\* the adjudicator and is never transferred; a Photos item with its NameKey
\* is photos_only, unless a media file of the folder has that NameKey too.
\* A media file takes part whatever the letter case of its MIME type.
C39_OnlyMediaFilesTakePart ==
    /\ \A i \in 1..Len(driveStore) :
         driveStore[i].mimeType \notin MediaTypes =>
            /\ ~InList(drive_media_files, driveStore[i])
            /\ LeftOccurrences(comparison_result, driveStore[i].id) = 0
            /\ driveStore[i].id \notin PairedIds(resolved)
            /\ \A j \in 1..Len(started) : started[j] # driveStore[i].id
            /\ Classified =>
                 \A j \in 1..Len(photos_metadata) :
                    (/\ Lower(photos_metadata[j].filename)
                          = Lower(driveStore[i].name)
                     /\ \A k \in 1..Len(drive_media_files) :
                          ~SameNameKey(drive_media_files[k],
                                       photos_metadata[j])) =>
                       InPhotosOnly(comparison_result, photos_metadata[j].id)
    /\ (pc \notin {"idle", "start", "scan_drive", "restarted"} /\ ~scanFailed) =>
         \A i \in 1..Len(driveStore) :
            (/\ driveStore[i].mimeType \in MediaTypes
             /\ driveStore[i].id \in {DriveId(k) : k \in 0..NumNames}) =>
                InList(drive_media_files, driveStore[i])

\* a completed run on a folder whose only file of the name f1.jpg is a text
\* file, and whose other file has an upper-case MIME type: the Photos item
\* f1.jpg was taken as photos_only and its transfer attempted
C39_Witness ==
    /\ pc = "completed"
    /\ ~MediaFileNamed(RunName(1))
    /\ \E i \in 1..Len(drive_media_files) :
         drive_media_files[i].mimeType = "IMAGE/JPEG"
    /\ \E j \in 1..Len(comparison_result.photos_only) :
         /\ comparison_result.photos_only[j].filename = RunName(1)
         /\ \E k \in 1..Len(started) :
              started[k] = comparison_result.photos_only[j].id

\* a step in which stop_sync() was called on the engine of the run
StopStep ==
    /\ stopCalled'
    /\ stop_requested'
    /\ pc' = pc
    /\ ci' = ci
    /\ sync_threads' = sync_threads
    /\ selected_folder_id' = selected_folder_id

\* stop_sync() leaves the counters and the classification as they are
StopChangesOnlyTheFlag ==
    [][StopStep =>
          /\ stats' = stats
          /\ comparison_result' = comparison_result
          /\ resolved' = resolved
          /\ drive_media_files' = drive_media_files
          /\ photos_metadata' = photos_metadata]_vars

\* the flag, once set in a run that has begun and not ended, stays set
FlagStaysSet ==
    [][(stop_requested /\ pc \in InRunPcs) => stop_requested']_vars

\* the same, from the first statement of start_sync on
FlagStaysSetAfterReset ==
    [][(stop_requested /\ pc \in InRunPcs \ {"start"}) => stop_requested']_vars

\* a cancellation observed in the first loop: no Photos-only item is begun
NoDownloadAfterCancelledUploads ==
    (stop_requested /\ stopAt.pc \in {"upload_loop", "uploading"}) =>
        /\ stats.photos_to_drive_downloads = 0
        /\ \A i \in 1..Len(started) :
             ~InPhotosOnly(comparison_result, started[i])

\* C40: stop_sync() changes only the cancellation flag (the four counters
\* and the classification of the run are as they were); within a run the
\* flag, once true, is never reset to false; and so a cancellation observed
\* in the Drive-only loop leaves every Photos-only item untransferred.
C40_StopOnlySetsTheFlag ==
    /\ StopChangesOnlyTheFlag
    /\ FlagStaysSet
    /\ []NoDownloadAfterCancelledUploads

=============================================================================
